---- MODULE Spec2Model ----
(***************************************************************************)
(* Model of flows/s3_to_snowflake.py: the S3 -> Landing AI -> Snowflake    *)
(* document pipeline.  The driver s3_to_snowflake_flow is a sequential     *)
(* program; pc is its position.  Warehouse operations are modelled one     *)
(* cursor statement per step, the other tasks one call per step.  The      *)
(* outcome of every external call (secret store, S3, the extraction        *)
(* service, the warehouse driver) is chosen nondeterministically.          *)
(* Spec is the flow, SpecExtract extract_document_content on any response, *)
(* SpecLoad load_to_snowflake called for any key, and SpecSetup the main   *)
(* of flows/setup_blocks.py.                                               *)
(***************************************************************************)
EXTENDS Integers, Sequences, FiniteSets, TLC

\* ---------------------------------------------------------------- bounds
\* longest bucket listing of one run
MaxFiles == 2
\* number of runs of the flow over the same warehouse
MaxRuns == 2
\* longest chunk list of an extraction result (SpecExtract)
MaxChunks == 2

\* ------------------------------------------------------------ data values
\* Python's None (as a string where the value is a string, as a record kind
\* where it is a structured value).
None == "None"

\* Object keys: strings, as sequences of characters.  <<"a">> and
\* <<"d","/","a">> share their last path segment and differ as paths.
Keys == { <<"a">>, <<"d", "/", "a">>, <<"b">> }

\* file_key.split('/')[-1]: the characters after the last '/'.
RECURSIVE LastSegment(_)
LastSegment(s) ==
    IF s = <<>> THEN <<>>
    ELSE IF s[Len(s)] = "/" THEN <<>>
    ELSE Append(LastSegment(SubSeq(s, 1, Len(s) - 1)), s[Len(s)])

\* hasattr(obj, name), an object being the record of its attributes
HasAttr(obj, name) == name \in DOMAIN obj

\* Python truthiness of a sequence value ([] and the empty listing are falsy)
TruthySeq(v) == v # <<>>

\* Python truthiness of a secret's value: None and "" are falsy
TruthyStr(v) == v # None /\ v # ""

\* Exceptions are records; NoErr is "no exception".
NoErr == [ type |-> "none" ]
ValueError(msg) == [ type |-> "ValueError", msg |-> msg ]
\* an exception raised by an external client (S3, extraction service, driver)
External(call) == [ type |-> "ExternalError", call |-> call ]

\* str(obj) of an object of the extraction library: an opaque text
Str(obj) == "<repr>"

\* --------------------------------------------------- extract_document_content
\* Objects of the extraction library are records of their attributes, so that
\* hasattr is a domain test.  A chunk_type is an object that may or may not
\* carry "value"; a grounding may or may not carry "page" and "box"; a box may
\* lack any of its edges.

\* lines 83-88: the box of a grounding entry, a missing edge read as 0
BoxDict(box) ==
    [ l |-> IF HasAttr(box, "l") THEN box.l ELSE 0,
      t |-> IF HasAttr(box, "t") THEN box.t ELSE 0,
      r |-> IF HasAttr(box, "r") THEN box.r ELSE 0,
      b |-> IF HasAttr(box, "b") THEN box.b ELSE 0 ]

\* GroundingDict attaching a box to every entry, all edges 0 when the
\* grounding has none
GroundingDictAlwaysBox(g) ==
    LET page == IF HasAttr(g, "page") THEN g.page ELSE 0
    IN  IF HasAttr(g, "box")
        THEN [ page |-> page, box |-> BoxDict(g.box) ]
        ELSE [ page |-> page, box |-> [ l |-> 0, t |-> 0, r |-> 0, b |-> 0 ] ]

\* lines 79-89: one grounding entry; the entry is appended whether or not it
\* has a box
GroundingDict(g) ==
    LET page == IF HasAttr(g, "page") THEN g.page ELSE 0
    IN  IF HasAttr(g, "box")
        THEN [ page |-> page, box |-> BoxDict(g.box) ]
        ELSE [ page |-> page ]

\* line 72: the chunk's type tag, "text" when there is none
ChunkType(chunk) ==
    IF HasAttr(chunk, "chunk_type") /\ HasAttr(chunk.chunk_type, "value")
    THEN chunk.chunk_type.value
    ELSE "text"

\* ChunkDict attaching a grounding list to every chunk
ChunkDictAlwaysGrounding(chunk) ==
    LET text == IF HasAttr(chunk, "text") THEN chunk.text ELSE Str(chunk)
        cid  == IF HasAttr(chunk, "chunk_id") THEN chunk.chunk_id ELSE None
        gs   == IF HasAttr(chunk, "grounding") THEN chunk.grounding ELSE <<>>
    IN  [ text |-> text, chunk_type |-> ChunkType(chunk), chunk_id |-> cid,
          grounding |-> [ i \in 1..Len(gs) |-> GroundingDict(gs[i]) ] ]

\* lines 70-90: one chunk of the result as a JSON-serializable mapping
ChunkDict(chunk) ==
    LET text == IF HasAttr(chunk, "text") THEN chunk.text ELSE Str(chunk)
        cid  == IF HasAttr(chunk, "chunk_id") THEN chunk.chunk_id ELSE None
    IN  IF HasAttr(chunk, "grounding") /\ TruthySeq(chunk.grounding)
        THEN [ text |-> text, chunk_type |-> ChunkType(chunk), chunk_id |-> cid,
               grounding |-> [ i \in 1..Len(chunk.grounding) |->
                                   GroundingDict(chunk.grounding[i]) ] ]
        ELSE [ text |-> text, chunk_type |-> ChunkType(chunk), chunk_id |-> cid ]

\* lines 67-90: the chunk list of a result, in order
SerializableChunks(result) ==
    IF HasAttr(result, "chunks") /\ TruthySeq(result.chunks)
    THEN [ i \in 1..Len(result.chunks) |-> ChunkDict(result.chunks[i]) ]
    ELSE <<>>

\* lines 93-100: the ExtractionResult built from the first result
FormattedResult(result, file_content, file_key) ==
    [ data |->
        [ markdown |-> IF HasAttr(result, "markdown") THEN result.markdown
                       ELSE Str(result),
          chunks |-> SerializableChunks(result),
          extracted_schema |-> [ file_name |-> file_key,
                                 file_size |-> Len(file_content) ],
          extraction_metadata |-> [ timestamp |-> "2025-06-06",
                                    library |-> "agentic-doc" ] ] ]

\* the value of a call that raised instead of returning
NoValue == [ none |-> TRUE ]

\* What parse(temp_file_path) does: raise, return None, or return a list.
ParseRaise == [ kind |-> "raise" ]
ParseNone  == [ kind |-> "none" ]
ParseList(results) == [ kind |-> "list", results |-> results ]

\* line 62: results and len(results) > 0
HasResults(parse) == parse.kind = "list" /\ Len(parse.results) > 0

\* lines 52-54: the temporary file is created as <tmpdir>/<random>_<file_key>.
\* A key with a '/' in it names a directory that does not exist, and
\* NamedTemporaryFile raises FileNotFoundError without creating a file.
HasSlash(file_key) == \E i \in 1..Len(file_key) : file_key[i] = "/"

TempFileError == [ type |-> "FileNotFoundError" ]

\* extract_document_content left by the failure to create the file
NoTempFile ==
    [ raised |-> TempFileError, value |-> NoValue, tmp_written |-> FALSE,
      parse_called |-> FALSE, tmp_removed |-> FALSE ]

\* extract_document_content answering empty results with an empty record
\* instead of an error
ExtractMockOnEmpty(file_content, file_key, api_key, parse) ==
    IF ~TruthyStr(api_key)
    THEN [ raised |-> ValueError("Landing AI API key is required"),
           value |-> NoValue, tmp_written |-> FALSE, parse_called |-> FALSE,
           tmp_removed |-> FALSE ]
    ELSE IF HasSlash(file_key)
    THEN NoTempFile
    ELSE IF parse.kind = "raise"
    THEN [ raised |-> External("parse"), value |-> NoValue, tmp_written |-> TRUE,
           parse_called |-> TRUE, tmp_removed |-> FALSE ]
    ELSE [ raised |-> NoErr,
           value |-> IF HasResults(parse)
                     THEN FormattedResult(parse.results[1], file_content,
                                          file_key)
                     ELSE [ data |-> [ markdown |-> "", chunks |-> <<>> ] ],
           tmp_written |-> TRUE, parse_called |-> TRUE, tmp_removed |-> TRUE ]

\* extract_document_content testing the API key only after the temporary
\* file has been written
ExtractKeyCheckAfterWrite(file_content, file_key, api_key, parse) ==
    IF HasSlash(file_key)
    THEN NoTempFile
    ELSE IF ~TruthyStr(api_key)
    THEN [ raised |-> ValueError("Landing AI API key is required"),
           value |-> NoValue, tmp_written |-> TRUE, parse_called |-> FALSE,
           tmp_removed |-> FALSE ]
    ELSE IF parse.kind = "raise"
    THEN [ raised |-> External("parse"), value |-> NoValue,
           tmp_written |-> TRUE, parse_called |-> TRUE,
           tmp_removed |-> FALSE ]
    ELSE IF HasResults(parse)
    THEN [ raised |-> NoErr,
           value |-> FormattedResult(parse.results[1], file_content, file_key),
           tmp_written |-> TRUE, parse_called |-> TRUE, tmp_removed |-> TRUE ]
    ELSE [ raised |-> ValueError("Empty results"), value |-> NoValue,
           tmp_written |-> TRUE, parse_called |-> TRUE, tmp_removed |-> TRUE ]

\* extract_document_content removing the temporary file only after the
\* results have been found non-empty
ExtractUnlinkAfterInspect(file_content, file_key, api_key, parse) ==
    IF ~TruthyStr(api_key)
    THEN [ raised |-> ValueError("Landing AI API key is required"),
           value |-> NoValue, tmp_written |-> FALSE, parse_called |-> FALSE,
           tmp_removed |-> FALSE ]
    ELSE IF HasSlash(file_key)
    THEN NoTempFile
    ELSE IF parse.kind = "raise"
    THEN [ raised |-> External("parse"), value |-> NoValue,
           tmp_written |-> TRUE, parse_called |-> TRUE,
           tmp_removed |-> FALSE ]
    ELSE IF HasResults(parse)
    THEN [ raised |-> NoErr,
           value |-> FormattedResult(parse.results[1], file_content, file_key),
           tmp_written |-> TRUE, parse_called |-> TRUE, tmp_removed |-> TRUE ]
    ELSE [ raised |-> ValueError("Empty results"), value |-> NoValue,
           tmp_written |-> TRUE, parse_called |-> TRUE, tmp_removed |-> FALSE ]

\* extract_document_content(file_content, file_key) given the API-key secret
\* and what parse does: the exception raised (NoErr if none), the value
\* returned, and what happened to the temporary file and the service.
ExtractDocumentContent(file_content, file_key, api_key, parse) ==
    IF ~TruthyStr(api_key)
    THEN [ raised |-> ValueError("Landing AI API key is required"),
           value |-> NoValue, tmp_written |-> FALSE, parse_called |-> FALSE,
           tmp_removed |-> FALSE ]
    ELSE IF HasSlash(file_key)
    THEN NoTempFile
    ELSE IF parse.kind = "raise"
    THEN [ raised |-> External("parse"), value |-> NoValue, tmp_written |-> TRUE,
           parse_called |-> TRUE, tmp_removed |-> FALSE ]
    ELSE IF HasResults(parse)
    THEN [ raised |-> NoErr,
           value |-> FormattedResult(parse.results[1], file_content, file_key),
           tmp_written |-> TRUE, parse_called |-> TRUE, tmp_removed |-> TRUE ]
    ELSE [ raised |-> ValueError("Empty results"), value |-> NoValue,
           tmp_written |-> TRUE, parse_called |-> TRUE, tmp_removed |-> TRUE ]

\* ------------------------------------------------------------ list_s3_files
\* What bucket.list_objects() does: raise, return None, or return a sequence
\* of object descriptors, each a mapping with a "Key".
ListRaise == [ kind |-> "raise" ]
ListNone  == [ kind |-> "none" ]
ListObjects(objs) == [ kind |-> "list", objects |-> objs ]

\* line 21: [obj['Key'] for obj in objects] if objects else []
ListS3Files(listing) ==
    IF listing.kind = "list" /\ TruthySeq(listing.objects)
    THEN [ i \in 1..Len(listing.objects) |-> listing.objects[i].Key ]
    ELSE <<>>

\* ------------------------------------------- create_s3_bucket_if_not_exists
\* head_bucket returns ("ok") or raises a ClientError with an error code;
\* create_bucket returns ("ok") or raises ("fail").
HeadOutcomes == { "ok", "404", "403" }
CreateOutcomes == { "ok", "fail" }

\* one call of the S3 client and what it did
S3Call(op, out) == [ op |-> op, out |-> out ]

\* create_s3_bucket_if_not_exists creating the bucket on any ClientError
CreateS3BucketOnAnyError(head, create) ==
    IF head = "ok"
    THEN [ calls |-> << S3Call("head_bucket", head) >>, raised |-> NoErr ]
    ELSE [ calls |-> << S3Call("head_bucket", head),
                        S3Call("create_bucket", create) >>,
           raised |-> IF create = "ok" THEN NoErr
                      ELSE External("create_bucket") ]

\* lines 121-132: the client calls made, in order, and the exception raised
CreateS3BucketIfNotExists(head, create) ==
    IF head = "ok"
    THEN [ calls |-> << S3Call("head_bucket", head) >>, raised |-> NoErr ]
    ELSE IF head = "404"
    THEN [ calls |-> << S3Call("head_bucket", head),
                        S3Call("create_bucket", create) >>,
           raised |-> IF create = "ok" THEN NoErr
                      ELSE External("create_bucket") ]
    ELSE [ calls |-> << S3Call("head_bucket", head) >>,
           raised |-> [ type |-> "ClientError", code |-> head ] ]

\* ------------------------------------------------------------ SQL statements
\* A statement is its verb and the (possibly qualified) name it acts on.
Stmt(verb, name) == [ verb |-> verb, name |-> name ]

QualifiedDocs == <<"ai", "AGENTIC_DOC_EXTRACTION", "DOCS">>

\* sql.replace("ai.AGENTIC_DOC_EXTRACTION.", ""): the name without the prefix
StripPrefix(stmt) ==
    LET n == stmt.name
    IN  IF Len(n) > 2 /\ n[1] = "ai" /\ n[2] = "AGENTIC_DOC_EXTRACTION"
        THEN [ stmt EXCEPT !.name = SubSeq(n, 3, Len(n)) ]
        ELSE stmt

\* lines 151-155: the five statements setup issues through _exec_sql
SetupStatements ==
    << Stmt("CREATE WAREHOUSE IF NOT EXISTS", <<"PREFECT_WH">>),
       Stmt("CREATE DATABASE IF NOT EXISTS", <<"ai">>),
       Stmt("USE DATABASE", <<"ai">>),
       Stmt("CREATE SCHEMA IF NOT EXISTS", <<"AGENTIC_DOC_EXTRACTION">>),
       Stmt("USE SCHEMA", <<"AGENTIC_DOC_EXTRACTION">>) >>

\* line 159
ContextQuery == Stmt("SELECT CURRENT", <<>>)

\* lines 166-169
TableSql == Stmt("CREATE TABLE IF NOT EXISTS", QualifiedDocs)

\* lines 180-181: the two statements load issues through _exec_sql
LoadStatements ==
    << Stmt("USE DATABASE", <<"ai">>),
       Stmt("USE SCHEMA", <<"AGENTIC_DOC_EXTRACTION">>) >>

\* lines 183-187
MergeSql == Stmt("MERGE INTO", QualifiedDocs)

\* What one statement does on the cursor: execute raises ("exec_fail", the
\* statement has no effect), execute succeeds and fetchall raises
\* ("fetch_fail"), or both succeed ("ok").  Where the caller reads the rows,
\* a successful fetchall that gives no row is "empty".
SqlOutcomes == { "ok", "exec_fail", "fetch_fail" }
QueryOutcomes == SqlOutcomes \cup { "empty" }
Failed(o) == o \in { "exec_fail", "fetch_fail" }
Executed(o) == o # "exec_fail"

\* the exception cur.execute / cur.fetchall raises
DbError(stmt, o) ==
    [ type |-> "DatabaseError", stmt |-> stmt,
      call |-> IF o = "exec_fail" THEN "execute" ELSE "fetchall" ]

\* _exec_sql without its except branch: the failure leaves the function
ExecSqlReraise(stmt, o) ==
    [ stmt |-> stmt, outcome |-> o,
      executes |-> 1,
      fetches |-> IF o = "exec_fail" THEN 0 ELSE 1,
      raised |-> IF Failed(o) THEN DbError(stmt, o) ELSE NoErr,
      ret |-> None,
      warned |-> FALSE ]

\* _exec_sql(cur, sql, desc): how often execute and fetchall are called, the
\* exception that leaves the function, its return value, and whether a
\* warning was logged.
ExecSql(stmt, o) ==
    [ stmt |-> stmt, outcome |-> o,
      executes |-> 1,
      fetches |-> IF o = "exec_fail" THEN 0 ELSE 1,
      raised |-> NoErr,
      ret |-> None,
      warned |-> Failed(o) ]

\* ------------------------------------------------------------ the DOCS table
\* params of line 189: (file name, file path, serialized content)
Params(file_key, extracted_content) ==
    << LastSegment(file_key), file_key, extracted_content >>

\* Rows of the table with a given FILE_PATH
RowsFor(rows, path) == { i \in 1..Len(rows) : rows[i].FILE_PATH = path }

\* MergeInto without the ON condition: the row is always inserted
MergeIntoAlways(rows, params, now) ==
    Append(rows, [ ID |-> Len(rows) + 1,
                   FILE_NAME |-> params[1],
                   FILE_PATH |-> params[2],
                   PROCESS_DATE |-> now,
                   EXTRACTED_CONTENT |-> params[3] ])

\* MergeInto with a WHEN MATCHED THEN UPDATE branch: the matching row takes
\* the new content and time
MergeIntoUpdate(rows, params, now) ==
    IF RowsFor(rows, params[2]) # {}
    THEN [ i \in 1..Len(rows) |->
             IF rows[i].FILE_PATH = params[2]
             THEN [ rows[i] EXCEPT !.EXTRACTED_CONTENT = params[3],
                                   !.PROCESS_DATE = now ]
             ELSE rows[i] ]
    ELSE Append(rows, [ ID |-> Len(rows) + 1,
                        FILE_NAME |-> params[1],
                        FILE_PATH |-> params[2],
                        PROCESS_DATE |-> now,
                        EXTRACTED_CONTENT |-> params[3] ])

\* The MERGE of lines 183-187 on the table: insert when no row matches on
\* FILE_PATH, nothing otherwise.  ID is the table's AUTOINCREMENT,
\* PROCESS_DATE its DEFAULT (the time of the insert, here the run number).
MergeInto(rows, params, now) ==
    IF RowsFor(rows, params[2]) # {}
    THEN rows
    ELSE Append(rows, [ ID |-> Len(rows) + 1,
                        FILE_NAME |-> params[1],
                        FILE_PATH |-> params[2],
                        PROCESS_DATE |-> now,
                        EXTRACTED_CONTENT |-> params[3] ])

\* ------------------------------------------------------------------ inputs
\* values of a secret: absent, empty, set
Secrets == { None, "", "set" }

\* downloaded bytes
Contents == { <<>>, <<0>> }

\* sequences of at most n distinct elements of S
DistinctSeqs(S, n) ==
    UNION { { q \in [1..m -> S] : \A i, j \in 1..m : q[i] = q[j] => i = j }
            : m \in 0..n }

\* bucket listings: a bucket holds each key once
Listings ==
    { ListRaise, ListNone } \cup
    { ListObjects([ i \in 1..Len(q) |-> [ Key |-> q[i], Size |-> 1 ] ])
      : q \in DistinctSeqs(Keys, MaxFiles) }

\* results of the extraction service used by the flow
ResultA ==
    [ markdown |-> "# A",
      chunks |-> << [ text |-> "t", chunk_id |-> "c1" ],
                    [ text |-> "u", chunk_type |-> [ value |-> "table" ],
                      chunk_id |-> "c2",
                      grounding |-> << [ page |-> 1,
                                         box |-> [ l |-> 1, t |-> 2,
                                                   r |-> 3, b |-> 4 ] ] >> ] >> ]
ResultB == [ markdown |-> "# B", chunks |-> <<>> ]

FlowParses ==
    { ParseRaise, ParseNone, ParseList(<<>>), ParseList(<<ResultA, ResultB>>) }

\* ------------------------------------------------------------------- state
VARIABLES
    pc,        \* position of the driver
    runs,      \* number of the current run of the flow
    s3_bucket_name, \* value of the bucket-name secret this run read
    listed,    \* what list_objects gave this run
    calls,     \* the calls the flow made in this run, in order
    s3calls,   \* the S3 client calls of create_s3_bucket_if_not_exists
    files,     \* the keys list_s3_files returned
    idx,       \* index in files of the key being processed
    content,   \* bytes of the current key
    extracted, \* ExtractionResult of the current key
    docs,      \* rows of ai.AGENTIC_DOC_EXTRACTION.DOCS
    merged,    \* paths of the MERGE statements the warehouse has executed
    mergeOut,  \* outcomes of the MERGE attempts of the current load
    conn,      \* open warehouse connections
    sql,       \* statements issued on the open cursor, in order
    failed,    \* positions in sql of the provisioner's failed statements
    lastExec,  \* what the _exec_sql call of the last step did
    pending,   \* exception leaving the body of the open with-block
    err,       \* exception the run ended with
    xin,       \* what the current key's extraction was given: the API-key
               \* secret and, if it was called, the service's response
    xr,        \* what the current key's extraction did
    argc,      \* setup_blocks.py: number of positional arguments given
    spc,       \* setup_blocks.py: position of main
    success,   \* setup_blocks.py: main's success flag
    saved,     \* setup_blocks.py: the blocks saved to the store, in order
    attempted, \* setup_blocks.py: the setup steps main called, in order
    status,    \* setup_blocks.py: the exit status of the process
    prev       \* the listing and the table at the end of the previous run

\* the state of the flow
flowvars == << pc, runs, s3_bucket_name, listed, calls, s3calls, files, idx,
               content, extracted, docs, merged, mergeOut, conn, sql, failed,
               lastExec, pending, err, xin, xr, prev >>

\* the state of the setup script
script == << argc, spc, success, saved, attempted, status >>

vars == << flowvars, script >>

Call(op, key) == [ op |-> op, key |-> key ]
NoKey == <<>>
NoExec == [ stmt |-> Stmt("", <<>>), outcome |-> "", executes |-> 0,
            fetches |-> 0, raised |-> NoErr, ret |-> None, warned |-> FALSE ]
NoExtract == [ raised |-> NoErr, value |-> NoValue, tmp_written |-> FALSE,
               parse_called |-> FALSE, tmp_removed |-> FALSE ]
NotCalled == [ kind |-> "not called" ]
NoInput == [ api_key |-> "unread", parse |-> NotCalled ]
Unread == "unread"
NotListed == [ kind |-> "not listed" ]

RunStart ==
    /\ pc = "init"
    /\ s3_bucket_name = Unread
    /\ listed = NotListed
    /\ mergeOut = <<>>
    /\ calls = <<>>
    /\ s3calls = <<>>
    /\ files = <<>>
    /\ idx = 0
    /\ content = <<>>
    /\ extracted = NoValue
    /\ conn = 0
    /\ sql = <<>>
    /\ failed = {}
    /\ lastExec = NoExec
    /\ pending = NoErr
    /\ err = NoErr
    /\ xin = NoInput
    /\ xr = NoExtract

\* the exit status of a process that has not exited
Running == -1

\* the setup script has not been started
ScriptStart ==
    /\ argc = 0
    /\ spc = "not run"
    /\ success = TRUE
    /\ saved = <<>>
    /\ attempted = <<>>
    /\ status = Running

\* there is no previous run
NoPrev == [ listed |-> NotListed, docs |-> <<>> ]

Init ==
    /\ RunStart
    /\ runs = 1
    /\ docs = <<>>
    /\ merged = {}
    /\ prev = NoPrev
    /\ ScriptStart

\* the run ends with exception e
Raise(e) == pc' = "raised" /\ err' = e

\* BucketNameCheck testing for None only ("is None" in place of "not")
BucketNameCheckNoneOnly(secret) ==
    IF secret = None THEN ValueError("S3 bucket name is required")
    ELSE NoErr

\* --------------------------------------------------- s3_to_snowflake_flow
\* lines 223-225: the check of the bucket-name secret
BucketNameCheck(secret) ==
    IF ~TruthyStr(secret) THEN ValueError("S3 bucket name is required")
    ELSE NoErr

\* lines 223-227
FlowInit ==
    /\ pc = "init"
    /\ \E v \in Secrets :
         /\ s3_bucket_name' = v
         /\ calls' = Append(calls, Call("get_secret:s3-bucket-name", NoKey))
         /\ IF BucketNameCheck(v) = NoErr
            THEN pc' = "bucket" /\ err' = err
            ELSE Raise(BucketNameCheck(v))
    /\ UNCHANGED << runs, listed, s3calls, files, idx, content, extracted,
                    docs, merged, mergeOut, conn, sql, failed, lastExec,
                    pending, xin, xr >>
    /\ UNCHANGED << script, prev >>

\* CreateBucket with the flow going straight to the listing, the call of
\* the provisioner left out
CreateBucketSkipSetup ==
    /\ pc = "bucket"
    /\ calls' = Append(calls, Call("create_s3_bucket_if_not_exists", NoKey))
    /\ \E head \in HeadOutcomes, create \in CreateOutcomes :
         LET r == CreateS3BucketIfNotExists(head, create)
         IN  /\ s3calls' = r.calls
             /\ IF r.raised = NoErr
                THEN pc' = "list" /\ err' = err
                ELSE Raise(r.raised)
    /\ UNCHANGED << runs, s3_bucket_name, listed, files, idx, content,
                    extracted, docs, merged, mergeOut, conn, sql, failed,
                    lastExec, pending, xin, xr >>
    /\ UNCHANGED << script, prev >>

\* line 230: create_s3_bucket_if_not_exists(s3_bucket_name)
CreateBucket ==
    /\ pc = "bucket"
    /\ calls' = Append(calls, Call("create_s3_bucket_if_not_exists", NoKey))
    /\ \E head \in HeadOutcomes, create \in CreateOutcomes :
         LET r == CreateS3BucketIfNotExists(head, create)
         IN  /\ s3calls' = r.calls
             /\ IF r.raised = NoErr
                THEN pc' = "setup" /\ err' = err
                ELSE Raise(r.raised)
    /\ UNCHANGED << runs, s3_bucket_name, listed, files, idx, content,
                    extracted, docs, merged, mergeOut, conn, sql, failed,
                    lastExec, pending, xin, xr >>
    /\ UNCHANGED << script, prev >>

\* ------------------------------------------- setup_snowflake_infrastructure
\* lines 148-149: open the connection and the cursor (the bucket task's
\* client is gone)
SetupOpen ==
    /\ pc = "setup"
    /\ calls' = Append(calls, Call("setup_snowflake_infrastructure", NoKey))
    /\ s3calls' = <<>>
    /\ \/ /\ conn' = conn + 1
          /\ pc' = "setup_sql"
          /\ err' = err
       \/ /\ conn' = conn
          /\ Raise(External("connect"))
    /\ sql' = <<>>
    /\ failed' = {}
    /\ lastExec' = NoExec
    /\ pending' = NoErr
    /\ UNCHANGED << runs, s3_bucket_name, listed, files, idx, content,
                    extracted, docs, merged, mergeOut, xin, xr >>
    /\ UNCHANGED << script, prev >>

\* One _exec_sql call of a with-block whose statements are stmts: the next
\* statement is issued; an exception leaving _exec_sql leaves the block.
\* The provisioner's failures are recorded in failed (record = TRUE).
ExecNext(stmts, here, after, record) ==
    /\ pc = here
    /\ \E o \in SqlOutcomes :
         LET n == Len(sql) + 1
             r == ExecSql(stmts[n], o)
         IN  /\ sql' = Append(sql, stmts[n])
             /\ failed' = IF record /\ Failed(o) THEN failed \cup { n }
                          ELSE failed
             /\ lastExec' = r
             /\ pending' = r.raised
             /\ pc' = IF r.raised # NoErr THEN after.close
                      ELSE IF n = Len(stmts) THEN after.next
                      ELSE here
    /\ UNCHANGED << runs, s3_bucket_name, listed, calls, s3calls, files, idx,
                    content, extracted, docs, merged, mergeOut, conn, err,
                    xin, xr >>
    /\ UNCHANGED << script, prev >>

\* lines 151-155
SetupExec ==
    ExecNext(SetupStatements, "setup_sql",
             [ next |-> "setup_ctx", close |-> "setup_close" ], TRUE)

\* SetupContext without its try/except: a failure of the query leaves the
\* with-block
SetupContextNoExcept ==
    /\ pc = "setup_ctx"
    /\ \E o \in QueryOutcomes :
         /\ sql' = Append(sql, ContextQuery)
         /\ failed' = IF o # "ok" THEN failed \cup { Len(sql) + 1 }
                      ELSE failed
         /\ pending' = IF o # "ok" THEN DbError(ContextQuery, o) ELSE NoErr
         /\ pc' = IF o # "ok" THEN "setup_close" ELSE "setup_table"
    /\ lastExec' = NoExec
    /\ UNCHANGED << runs, s3_bucket_name, listed, calls, s3calls, files, idx,
                    content, extracted, docs, merged, mergeOut, conn, err,
                    xin, xr >>
    /\ UNCHANGED << script, prev >>

\* lines 158-163: read back the context; every exception is dropped
SetupContext ==
    /\ pc = "setup_ctx"
    /\ \E o \in QueryOutcomes :
         /\ sql' = Append(sql, ContextQuery)
         /\ failed' = IF o # "ok" THEN failed \cup { Len(sql) + 1 }
                      ELSE failed
    /\ pc' = "setup_table"
    /\ lastExec' = NoExec
    /\ UNCHANGED << runs, s3_bucket_name, listed, calls, s3calls, files, idx,
                    content, extracted, docs, merged, mergeOut, conn, pending,
                    err, xin, xr >>
    /\ UNCHANGED << script, prev >>

\* lines 170-173: the qualified CREATE TABLE through _exec_sql, and in the
\* except branch the unqualified one
SetupTable ==
    /\ pc = "setup_table"
    /\ \E o1 \in SqlOutcomes, o2 \in SqlOutcomes :
         LET n  == Len(sql) + 1
             r1 == ExecSql(TableSql, o1)
             r2 == ExecSql(StripPrefix(TableSql), o2)
             f1 == IF Failed(o1) THEN failed \cup { n } ELSE failed
         IN  IF r1.raised = NoErr
             THEN /\ sql' = Append(sql, TableSql)
                  /\ failed' = f1
                  /\ lastExec' = r1
                  /\ pending' = NoErr
             ELSE /\ sql' = sql \o << TableSql, StripPrefix(TableSql) >>
                  /\ failed' = IF Failed(o2) THEN f1 \cup { n + 1 } ELSE f1
                  /\ lastExec' = r2
                  /\ pending' = r2.raised
    /\ pc' = "setup_close"
    /\ UNCHANGED << runs, s3_bucket_name, listed, calls, s3calls, files, idx,
                    content, extracted, docs, merged, mergeOut, conn, err,
                    xin, xr >>
    /\ UNCHANGED << script, prev >>

\* the with-blocks of lines 148-149 end: cursor and connection are released
SetupClose ==
    /\ pc = "setup_close"
    /\ conn' = conn - 1
    /\ failed' = {}
    /\ lastExec' = NoExec
    /\ pending' = NoErr
    /\ IF pending = NoErr THEN pc' = "list" /\ err' = err ELSE Raise(pending)
    /\ UNCHANGED << runs, s3_bucket_name, listed, calls, s3calls, files, idx,
                    content, extracted, docs, merged, mergeOut, sql, xin,
                    xr >>
    /\ UNCHANGED << script, prev >>

\* ListFiles treating an empty listing as an error
ListFilesRaiseOnEmpty ==
    /\ pc = "list"
    /\ calls' = Append(calls, Call("list_s3_files", NoKey))
    /\ \E l \in Listings :
         LET f == ListS3Files(l)
         IN  IF l.kind = "raise"
             THEN /\ Raise(External("list_objects"))
                  /\ UNCHANGED << listed, files, idx >>
             ELSE /\ listed' = l
                  /\ files' = f
                  /\ IF f = <<>>
                     THEN Raise(ValueError("No files found")) /\ idx' = idx
                     ELSE pc' = "download" /\ idx' = 1 /\ err' = err
    /\ UNCHANGED << runs, s3_bucket_name, s3calls, content, extracted, docs,
                    merged, mergeOut, conn, sql, failed, lastExec, pending,
                    xin, xr >>
    /\ UNCHANGED << script, prev >>

\* lines 232-237: list the bucket; an empty listing ends the run
ListFiles ==
    /\ pc = "list"
    /\ calls' = Append(calls, Call("list_s3_files", NoKey))
    /\ \E l \in Listings :
         LET f == ListS3Files(l)
         IN  IF l.kind = "raise"
             THEN /\ Raise(External("list_objects"))
                  /\ UNCHANGED << listed, files, idx >>
             ELSE /\ listed' = l
                  /\ files' = f
                  /\ err' = err
                  /\ IF f = <<>>
                     THEN pc' = "done" /\ idx' = idx
                     ELSE pc' = "download" /\ idx' = 1
    /\ UNCHANGED << runs, s3_bucket_name, s3calls, content, extracted, docs,
                    merged, mergeOut, conn, sql, failed, lastExec, pending,
                    xin, xr >>
    /\ UNCHANGED << script, prev >>

\* ---------------------------------------------------------- process_document
\* line 212: get_s3_file
Download ==
    /\ pc = "download"
    /\ calls' = Append(calls, Call("get_s3_file", files[idx]))
    /\ \/ \E c \in Contents :
            /\ content' = c
            /\ pc' = "extract"
            /\ err' = err
       \/ /\ content' = content
          /\ Raise(External("read_path"))
    /\ UNCHANGED << runs, s3_bucket_name, listed, s3calls, files, idx,
                    extracted, docs, merged, mergeOut, conn, sql, failed,
                    lastExec, pending, xin, xr >>
    /\ UNCHANGED << script, prev >>

\* line 213: extract_document_content
Extract ==
    /\ pc = "extract"
    /\ calls' = Append(calls, Call("extract_document_content", files[idx]))
    /\ \E k \in Secrets, p \in FlowParses :
         LET x == ExtractDocumentContent(content, files[idx], k, p)
         IN  /\ xin' = [ api_key |-> k,
                         parse |-> IF x.parse_called THEN p ELSE NotCalled ]
             /\ xr' = x
             /\ IF x.raised = NoErr
                THEN extracted' = x.value /\ pc' = "load" /\ err' = err
                ELSE extracted' = extracted /\ Raise(x.raised)
    /\ UNCHANGED << runs, s3_bucket_name, listed, s3calls, files, idx,
                    content, docs, merged, mergeOut, conn, sql, failed,
                    lastExec, pending >>
    /\ UNCHANGED << script, prev >>

\* ---------------------------------------------------------- load_to_snowflake
\* lines 178-179: open the connection and the cursor
LoadOpen ==
    /\ pc = "load"
    /\ calls' = Append(calls, Call("load_to_snowflake", files[idx]))
    /\ mergeOut' = <<>>
    /\ \/ /\ conn' = conn + 1
          /\ pc' = "load_sql"
          /\ err' = err
       \/ /\ conn' = conn
          /\ Raise(External("connect"))
    /\ sql' = <<>>
    /\ failed' = {}
    /\ lastExec' = NoExec
    /\ pending' = NoErr
    /\ UNCHANGED << runs, s3_bucket_name, listed, s3calls, files, idx,
                    content, extracted, docs, merged, xin, xr >>
    /\ UNCHANGED << script, prev >>

\* lines 180-181
LoadExec ==
    ExecNext(LoadStatements, "load_sql",
             [ next |-> "load_merge", close |-> "load_close" ], FALSE)

\* One MERGE attempt of the load (cur.execute, then cur.fetchall): the
\* statement takes effect when execute succeeds.
MergeAttempt(stmt, params, o) ==
    /\ sql' = Append(sql, [ verb |-> stmt.verb, name |-> stmt.name,
                            params |-> params ])
    /\ mergeOut' = Append(mergeOut, o)
    /\ docs' = IF Executed(o) THEN MergeInto(docs, params, runs) ELSE docs
    /\ merged' = IF Executed(o) THEN merged \cup { params[2] } ELSE merged

\* LoadMerge with only cur.execute inside the try: a failure of fetchall
\* leaves the function
LoadMergeTryExecuteOnly ==
    /\ pc = "load_merge"
    /\ \E o \in SqlOutcomes :
         LET params == Params(files[idx], extracted)
         IN  /\ MergeAttempt(MergeSql, params, o)
             /\ pc' = IF o = "exec_fail" THEN "load_fallback"
                      ELSE "load_close"
             /\ pending' = IF o = "fetch_fail" THEN DbError(MergeSql, o)
                           ELSE NoErr
    /\ lastExec' = NoExec
    /\ UNCHANGED << runs, s3_bucket_name, listed, calls, s3calls, files, idx,
                    content, extracted, conn, failed, err, xin, xr >>
    /\ UNCHANGED << script, prev >>

\* lines 190-197: the MERGE with the qualified name; any exception goes to
\* the except branch
LoadMerge ==
    /\ pc = "load_merge"
    /\ \E o \in SqlOutcomes :
         /\ MergeAttempt(MergeSql, Params(files[idx], extracted), o)
         /\ pc' = IF Failed(o) THEN "load_fallback" ELSE "load_close"
    /\ pending' = NoErr
    /\ lastExec' = NoExec
    /\ UNCHANGED << runs, s3_bucket_name, listed, calls, s3calls, files, idx,
                    content, extracted, conn, failed, err, xin, xr >>
    /\ UNCHANGED << script, prev >>

\* LoadFallback swallowing the second failure as _exec_sql does
LoadFallbackSwallow ==
    /\ pc = "load_fallback"
    /\ \E o \in SqlOutcomes :
         LET stmt == StripPrefix(MergeSql)
         IN  /\ MergeAttempt(stmt, Params(files[idx], extracted), o)
             /\ pending' = NoErr
    /\ pc' = "load_close"
    /\ UNCHANGED << runs, s3_bucket_name, listed, calls, s3calls, files, idx,
                    content, extracted, conn, failed, lastExec, err, xin,
                    xr >>
    /\ UNCHANGED << script, prev >>

\* lines 198-207: the MERGE with the unqualified name; its exception leaves
\* the function
LoadFallback ==
    /\ pc = "load_fallback"
    /\ \E o \in SqlOutcomes :
         LET stmt == StripPrefix(MergeSql)
         IN  /\ MergeAttempt(stmt, Params(files[idx], extracted), o)
             /\ pending' = IF Failed(o) THEN DbError(stmt, o) ELSE NoErr
    /\ pc' = "load_close"
    /\ UNCHANGED << runs, s3_bucket_name, listed, calls, s3calls, files, idx,
                    content, extracted, conn, failed, lastExec, err, xin,
                    xr >>
    /\ UNCHANGED << script, prev >>

\* LoadClose without the with-blocks: the connection is closed only when the
\* body ends normally
LoadCloseLeakOnRaise ==
    /\ pc = "load_close"
    /\ conn' = IF pending # NoErr THEN conn ELSE conn - 1
    /\ failed' = {}
    /\ lastExec' = NoExec
    /\ pending' = NoErr
    /\ IF pending # NoErr
       THEN /\ Raise(pending)
            /\ UNCHANGED << idx, content, extracted, mergeOut, xin, xr >>
       ELSE /\ err' = err
            /\ mergeOut' = <<>>
            /\ content' = <<>>
            /\ extracted' = NoValue
            /\ xin' = NoInput
            /\ xr' = NoExtract
            /\ IF idx < Len(files)
               THEN pc' = "download" /\ idx' = idx + 1
               ELSE pc' = "done" /\ idx' = idx
    /\ UNCHANGED << runs, s3_bucket_name, listed, calls, s3calls, files, docs,
                    merged, sql >>
    /\ UNCHANGED << script, prev >>

\* LoadClose with the driver catching a key's exception and going on with
\* the next key
LoadCloseContinue ==
    /\ pc = "load_close"
    /\ conn' = conn - 1
    /\ failed' = {}
    /\ lastExec' = NoExec
    /\ pending' = NoErr
    /\ err' = err
    /\ mergeOut' = <<>>
    /\ content' = <<>>
    /\ extracted' = NoValue
    /\ xin' = NoInput
    /\ xr' = NoExtract
    /\ IF idx < Len(files)
       THEN pc' = "download" /\ idx' = idx + 1
       ELSE pc' = "done" /\ idx' = idx
    /\ UNCHANGED << runs, s3_bucket_name, listed, calls, s3calls, files, docs,
                    merged, sql >>
    /\ UNCHANGED << script, prev >>

\* the with-blocks of lines 178-179 end and process_document returns (its
\* locals are gone); line 241: the next key, if any
LoadClose ==
    /\ pc = "load_close"
    /\ conn' = conn - 1
    /\ failed' = {}
    /\ lastExec' = NoExec
    /\ pending' = NoErr
    /\ IF pending # NoErr
       THEN /\ Raise(pending)
            /\ UNCHANGED << idx, content, extracted, mergeOut, xin, xr >>
       ELSE /\ err' = err
            /\ mergeOut' = <<>>
            /\ content' = <<>>
            /\ extracted' = NoValue
            /\ xin' = NoInput
            /\ xr' = NoExtract
            /\ IF idx < Len(files)
               THEN pc' = "download" /\ idx' = idx + 1
               ELSE pc' = "done" /\ idx' = idx
    /\ UNCHANGED << runs, s3_bucket_name, listed, calls, s3calls, files, docs,
                    merged, sql >>
    /\ UNCHANGED << script, prev >>

\* The flow is run again (the hourly schedule, or by hand) on the same
\* warehouse.
NewRun ==
    /\ pc \in { "done", "raised" }
    /\ runs < MaxRuns
    /\ runs' = runs + 1
    /\ pc' = "init"
    /\ s3_bucket_name' = Unread
    /\ listed' = NotListed
    /\ mergeOut' = <<>>
    /\ calls' = <<>>
    /\ s3calls' = <<>>
    /\ files' = <<>>
    /\ idx' = 0
    /\ content' = <<>>
    /\ extracted' = NoValue
    /\ sql' = <<>>
    /\ failed' = {}
    /\ lastExec' = NoExec
    /\ pending' = NoErr
    /\ err' = NoErr
    /\ xin' = NoInput
    /\ xr' = NoExtract
    /\ UNCHANGED << docs, merged, conn >>
    /\ UNCHANGED << script, prev >>

Next ==
    \/ FlowInit
    \/ CreateBucket
    \/ SetupOpen
    \/ SetupExec
    \/ SetupContext
    \/ SetupTable
    \/ SetupClose
    \/ ListFiles
    \/ Download
    \/ Extract
    \/ LoadOpen
    \/ LoadExec
    \/ LoadMerge
    \/ LoadFallback
    \/ LoadClose
    \/ NewRun

Spec == Init /\ [][Next]_vars

\* ------------------------------------ the flow run again on the same bucket
\* The bytes of the bucket's objects: an object keeps its content from run
\* to run.
ObjectBytes(file_key) == IF file_key = << "b" >> THEN <<>> ELSE << 0 >>

\* Every external call of the step that led to this state succeeded: the
\* secrets were there, head_bucket found the bucket, the connection opened,
\* every statement was executed and fetched, the listing and the download
\* returned, the extraction service returned results.
Succeeded ==
    /\ s3_bucket_name \in { Unread, "set" }
    /\ \A i \in 1..Len(s3calls) : s3calls[i].out = "ok"
    /\ failed = {}
    /\ lastExec.outcome \in { "", "ok" }
    /\ \A i \in 1..Len(mergeOut) : mergeOut[i] = "ok"
    /\ listed.kind \in { "not listed", "none", "list" }
    /\ xin.api_key \in { Unread, "set" }
    /\ xin.parse = NotCalled \/ HasResults(xin.parse)
    /\ err \in { NoErr, TempFileError }

\* The bucket is as the previous run found it: the same listing, and for
\* every object the same bytes.
SameBucket ==
    /\ (prev # NoPrev /\ listed # NotListed) => listed = prev.listed
    /\ pc = "extract" => content = ObjectBytes(files[idx])

\* a step of the flow in which every external call succeeds on an unchanged
\* bucket
CleanStep(A) == A /\ Succeeded' /\ SameBucket'

\* the flow is run again; the listing and the table the run ended with are
\* remembered
Rerun ==
    /\ pc \in { "done", "raised" }
    /\ runs < MaxRuns
    /\ prev' = [ listed |-> listed, docs |-> docs ]
    /\ runs' = runs + 1
    /\ pc' = "init"
    /\ s3_bucket_name' = Unread
    /\ listed' = NotListed
    /\ mergeOut' = <<>>
    /\ calls' = <<>>
    /\ s3calls' = <<>>
    /\ files' = <<>>
    /\ idx' = 0
    /\ content' = <<>>
    /\ extracted' = NoValue
    /\ sql' = <<>>
    /\ failed' = {}
    /\ lastExec' = NoExec
    /\ pending' = NoErr
    /\ err' = NoErr
    /\ xin' = NoInput
    /\ xr' = NoExtract
    /\ UNCHANGED << docs, merged, conn >>
    /\ UNCHANGED script

\* the steps of the flow when nothing fails (the fallback MERGE is never
\* reached)
NextClean ==
    \/ CleanStep(FlowInit)
    \/ CleanStep(CreateBucket)
    \/ CleanStep(SetupOpen)
    \/ CleanStep(SetupExec)
    \/ CleanStep(SetupContext)
    \/ CleanStep(SetupTable)
    \/ CleanStep(SetupClose)
    \/ CleanStep(ListFiles)
    \/ CleanStep(Download)
    \/ CleanStep(Extract)
    \/ CleanStep(LoadOpen)
    \/ CleanStep(LoadExec)
    \/ CleanStep(LoadMerge)
    \/ CleanStep(LoadClose)
    \/ Rerun

SpecClean == Init /\ [][NextClean]_vars

\* ------------------------------------------- extraction on arbitrary results
\* The partial records over one attribute: absent, or present with a value
Opt(name, vals) == { <<>> } \cup { name :> v : v \in vals }

\* grounding entries: page and full box, a box lacking edges and no page,
\* a page and no box
GroundFull == [ page |-> 1, box |-> [ l |-> 1, t |-> 2, r |-> 3, b |-> 4 ] ]
GroundPart == [ box |-> [ l |-> 5 ] ]
GroundPage == [ page |-> 2 ]

GroundingLists ==
    { <<>>, << GroundFull, GroundPage >>, << GroundPart >> }

\* chunks: with or without text and id, with a type tag, a type object that
\* has no value, or none, with or without grounding
ChunkUniverse ==
    { a @@ b @@ c :
        a \in { <<>>, [ text |-> "t", chunk_id |-> "c1" ] },
        b \in Opt("chunk_type", { [ value |-> "table" ], [ name |-> "x" ] }),
        c \in Opt("grounding", GroundingLists) }

\* chunk lists of at most MaxChunks chunks
ChunkLists ==
    UNION { [ 1..m -> ChunkUniverse ] : m \in 0..MaxChunks }

\* results: with or without markdown, with or without a chunk list
WideResults ==
    { a @@ b : a \in Opt("markdown", { "# M" }),
               b \in Opt("chunks", ChunkLists) }

WideParses ==
    { ParseRaise, ParseNone, ParseList(<<>>),
      ParseList(<< ResultA, ResultB >>) } \cup
    { ParseList(<< r >>) : r \in WideResults }

\* extract_document_content applied once to any file, secret and response
ExtractAny ==
    /\ xin = NoInput
    /\ \E c \in Contents, key \in Keys, k \in Secrets, p \in WideParses :
         LET x == ExtractDocumentContent(c, key, k, p)
         IN  /\ content' = c
             /\ xin' = [ api_key |-> k,
                         parse |-> IF x.parse_called THEN p ELSE NotCalled ]
             /\ xr' = x
    /\ UNCHANGED << pc, runs, s3_bucket_name, listed, calls, s3calls, files,
                    idx, extracted, docs, merged, mergeOut, conn, sql, failed,
                    lastExec, pending, err >>
    /\ UNCHANGED << script, prev >>

SpecExtract == Init /\ [][ExtractAny]_vars

\* ------------------------------------------ load_to_snowflake called directly
\* number of calls of load_to_snowflake made one after the other
MaxLoads == 3

\* load_to_snowflake(file_key, extracted_content) is called as a task of its
\* own, for any key and an ExtractionResult of any file size; the calls are
\* numbered by runs, which is the time of their inserts.
LoadAny ==
    /\ pc \in { "init", "done", "raised" }
    /\ IF pc = "init" THEN runs' = runs
       ELSE runs < MaxLoads /\ runs' = runs + 1
    /\ \E k \in Keys, c \in Contents :
         /\ files' = << k >>
         /\ extracted' = FormattedResult(ResultB, c, k)
    /\ idx' = 1
    /\ pc' = "load"
    /\ err' = NoErr
    /\ mergeOut' = <<>>
    /\ UNCHANGED << s3_bucket_name, listed, calls, s3calls, content, docs,
                    merged, conn, sql, failed, lastExec, pending, xin, xr >>
    /\ UNCHANGED << script, prev >>

NextLoad ==
    \/ LoadAny
    \/ LoadOpen
    \/ LoadExec
    \/ LoadMerge
    \/ LoadFallback
    \/ LoadClose

SpecLoad == Init /\ [][NextLoad]_vars

\* ------------------------------------------------------------ setup_blocks.py
\* largest number of positional arguments the script is started with
MaxArgs == 8

\* line 91: the length of sys.argv main accepts (the script name and seven
\* positional arguments)
ArgvLen == 8

\* a block saved to the store under a name
Block(name, kind) == [ name |-> name, kind |-> kind ]

\* lines 17-34: the blocks create_aws_credentials saves, in order
AwsBlocks ==
    << Block("aws-credentials", "AwsCredentials"),
       Block("default", "S3Bucket"),
       Block("aws-access-key-id", "Secret"),
       Block("aws-secret-access-key", "Secret") >>

\* lines 56-71: the blocks create_snowflake_connector saves, both under one
\* name
SnowflakeBlocks ==
    << Block("snowflake-credentials-key-auth", "SnowflakeCredentials"),
       Block("snowflake-credentials-key-auth", "SnowflakeConnector") >>

\* The try/except of the three create functions: the blocks are saved in
\* order until the f-th save raises (f = 0: none does); the blocks saved
\* before it stay saved, and the function returns whether none raised.
CreateBlocks(blocks, f) ==
    [ saved |-> SubSeq(blocks, 1, IF f = 0 THEN Len(blocks) ELSE f - 1),
      ret |-> f = 0 ]

\* lines 13-39
CreateAwsCredentials(f) == CreateBlocks(AwsBlocks, f)

\* lines 41-76: the private-key file is read first
CreateSnowflakeConnector(keyfile, f) ==
    IF keyfile = "missing"
    THEN [ saved |-> <<>>, ret |-> FALSE ]
    ELSE CreateBlocks(SnowflakeBlocks, f)

\* lines 78-87
CreateSecretBlock(name, f) == CreateBlocks(<< Block(name, "Secret") >>, f)

\* lines 91-109: the argument check
Main ==
    /\ spc = "not run"
    /\ \E n \in 0..MaxArgs :
         /\ argc' = n
         /\ IF n + 1 # ArgvLen
            THEN status' = 1 /\ spc' = "exited"
            ELSE status' = status /\ spc' = "aws"
    /\ success' = TRUE
    /\ UNCHANGED << saved, attempted >>
    /\ UNCHANGED flowvars

\* MainStep leaving for the exit at the first step that fails
MainStepStopOnFailure(here, next, step, r) ==
    /\ spc = here
    /\ saved' = saved \o r.saved
    /\ attempted' = Append(attempted, [ step |-> step, ret |-> r.ret ])
    /\ success' = IF ~r.ret THEN FALSE ELSE success
    /\ spc' = IF ~r.ret THEN "exit" ELSE next
    /\ UNCHANGED << argc, status >>
    /\ UNCHANGED flowvars

\* lines 112-125: one "if not create_...(...): success = False"
MainStep(here, next, step, r) ==
    /\ spc = here
    /\ saved' = saved \o r.saved
    /\ attempted' = Append(attempted, [ step |-> step, ret |-> r.ret ])
    /\ success' = IF ~r.ret THEN FALSE ELSE success
    /\ spc' = next
    /\ UNCHANGED << argc, status >>
    /\ UNCHANGED flowvars

\* lines 112-113
MainAws ==
    \E f \in 0..Len(AwsBlocks) :
        MainStep("aws", "snowflake", "create_aws_credentials",
                 CreateAwsCredentials(f))

\* lines 116-117
MainSnowflake ==
    \E k \in { "readable", "missing" }, f \in 0..Len(SnowflakeBlocks) :
        MainStep("snowflake", "api_key", "create_snowflake_connector",
                 CreateSnowflakeConnector(k, f))

\* lines 120-121
MainApiKey ==
    \E f \in 0..1 :
        MainStep("api_key", "bucket_name",
                 "create_secret_block:landing-ai-api-key",
                 CreateSecretBlock("landing-ai-api-key", f))

\* lines 124-125
MainBucketName ==
    \E f \in 0..1 :
        MainStep("bucket_name", "exit",
                 "create_secret_block:s3-bucket-name",
                 CreateSecretBlock("s3-bucket-name", f))

\* lines 127-132
MainExit ==
    /\ spc = "exit"
    /\ status' = IF success THEN 0 ELSE 1
    /\ spc' = "exited"
    /\ UNCHANGED << argc, success, saved, attempted >>
    /\ UNCHANGED flowvars

NextSetup ==
    \/ Main
    \/ MainAws
    \/ MainSnowflake
    \/ MainApiKey
    \/ MainBucketName
    \/ MainExit

SpecSetup == Init /\ [][NextSetup]_vars

\* ================================================================== claims
IsPrefix(a, b) == Len(a) <= Len(b) /\ a = SubSeq(b, 1, Len(a))

Paths(rows) == { rows[i].FILE_PATH : i \in 1..Len(rows) }

\* the keys of the listing as list_objects gave them
ListedKeys ==
    IF listed.kind = "list"
    THEN [ i \in 1..Len(listed.objects) |-> listed.objects[i].Key ]
    ELSE <<>>

EmptyListing ==
    listed.kind = "none" \/ (listed.kind = "list" /\ listed.objects = <<>>)

\* the calls of a run before the first key
FlowHeader ==
    << Call("get_secret:s3-bucket-name", NoKey),
       Call("create_s3_bucket_if_not_exists", NoKey),
       Call("setup_snowflake_infrastructure", NoKey),
       Call("list_s3_files", NoKey) >>

\* download, extract, load of each key in turn
RECURSIVE PerKey(_)
PerKey(ks) ==
    IF ks = <<>> THEN <<>>
    ELSE << Call("get_s3_file", Head(ks)),
            Call("extract_document_content", Head(ks)),
            Call("load_to_snowflake", Head(ks)) >> \o PerKey(Tail(ks))

UnqualifiedMerge == Stmt("MERGE INTO", <<"DOCS">>)

SecondMergeError(o) ==
    [ type |-> "DatabaseError", stmt |-> UnqualifiedMerge,
      call |-> IF o = "exec_fail" THEN "execute" ELSE "fetchall" ]

\* C1: after any sequence of loads the table holds exactly one row for every
\* path a MERGE was executed for, and no other row: a path loaded twice has
\* one row, two distinct paths have two rows.
C1_OneRowPerPath ==
    /\ \A i, j \in 1..Len(docs) :
         docs[i].FILE_PATH = docs[j].FILE_PATH => i = j
    /\ Paths(docs) = merged

\* the third of three load calls was for the path of the first, the second
\* for another path with the same file name: two rows
C1_Witness ==
    /\ runs = 3
    /\ pc = "load_close"
    /\ pending = NoErr
    /\ Len(docs) = 2
    /\ files[idx] = << "a" >>
    /\ docs[1].FILE_PATH = << "a" >>
    /\ docs[1].PROCESS_DATE = 1
    /\ docs[2].FILE_PATH = << "d", "/", "a" >>
    /\ docs[2].FILE_NAME = docs[1].FILE_NAME

\* C2 (states): a load makes at most two MERGE attempts, the qualified one
\* first; the unqualified one is made exactly when the qualified one failed,
\* with the same parameters; its exception is the one that leaves the load.
C2_Attempts ==
    /\ Len(mergeOut) <= 2
    /\ mergeOut # <<>> =>
         /\ Len(sql) = 2 + Len(mergeOut)
         /\ sql[3].verb = "MERGE INTO"
         /\ sql[3].name = <<"ai", "AGENTIC_DOC_EXTRACTION", "DOCS">>
    /\ Len(mergeOut) = 2 =>
         /\ Failed(mergeOut[1])
         /\ sql[4] = [ sql[3] EXCEPT !.name = <<"DOCS">> ]
    /\ pc = "load_fallback" => Len(mergeOut) = 1 /\ Failed(mergeOut[1])
    /\ (mergeOut # <<>> /\ pc # "load_fallback") =>
         (Failed(mergeOut[1]) <=> Len(mergeOut) = 2)
    /\ (pc = "load_close" /\ mergeOut # <<>>) =>
         pending = IF Failed(mergeOut[Len(mergeOut)])
                   THEN SecondMergeError(mergeOut[Len(mergeOut)])
                   ELSE NoErr
    /\ (pc = "raised" /\ mergeOut # <<>>) =>
         /\ Len(mergeOut) = 2
         /\ Failed(mergeOut[2])
         /\ err = SecondMergeError(mergeOut[2])

\* C2: in load_to_snowflake a failed qualified MERGE is followed by exactly
\* one unqualified MERGE with the same parameters, whose exception propagates
\* unchanged to the caller; a successful qualified MERGE is followed by none.
C2_FallbackOnce ==
    /\ []C2_Attempts
    /\ [][(pc = "load_close" /\ pending # NoErr) =>
            (pc' = "raised" /\ err' = pending /\ mergeOut' = mergeOut)]_vars

\* both MERGE attempts of a load failed and the run ended with the second
\* one's exception
C2_Witness ==
    /\ pc = "raised"
    /\ Len(mergeOut) = 2
    /\ mergeOut[1] = "exec_fail"
    /\ mergeOut[2] = "fetch_fail"

\* an exception that comes from an external call: a client that raised, a
\* secret that was not there, a service that answered with nothing
FromExternalCall(e) ==
    e.type \in { "ExternalError", "ClientError", "DatabaseError",
                 "ValueError" }

\* C3: for a non-empty listing the calls of the run are, after the header,
\* download, extract, load of the first listed key, then of the second, and
\* so on: at every point a prefix of that sequence, and all of it when the
\* run is done; each load is given its key's extraction result; and the run
\* stops before the end of that sequence only when an external call failed.
C3_PerKeyInOrder ==
    /\ (listed.kind = "list" /\ listed.objects # <<>>) =>
         /\ IsPrefix(calls, FlowHeader \o PerKey(ListedKeys))
         /\ pc = "done" => calls = FlowHeader \o PerKey(ListedKeys)
    /\ pc \in { "load_merge", "load_fallback", "load_close" } =>
         /\ xr.raised = NoErr
         /\ extracted = xr.value
         /\ xr.value.data.extracted_schema.file_name = ListedKeys[idx]
         /\ calls[Len(calls)] = Call("load_to_snowflake", ListedKeys[idx])
         /\ \A n \in 3..Len(sql) :
              sql[n].params[2] = ListedKeys[idx] /\ sql[n].params[3] = xr.value
    /\ (pc = "raised" /\ idx > 0) => FromExternalCall(err)

\* C4: for an empty or absent listing list_s3_files gives the empty list and
\* the run is done, without error, having made no download, extraction or
\* load call.
C4_EmptyListing ==
    EmptyListing =>
        /\ files = <<>>
        /\ pc = "done"
        /\ err = NoErr
        /\ calls = FlowHeader
        /\ conn = 0

\* list_objects returned None and the run is done
C4_Witness == listed = ListNone /\ pc = "done" /\ calls = FlowHeader

\* C5: with the bucket-name secret absent or empty the run has ended with
\* the ValueError and has called neither S3 nor the warehouse.
C5_MissingBucketName ==
    s3_bucket_name \in { None, "" } =>
        /\ pc = "raised"
        /\ err = [ type |-> "ValueError", msg |-> "S3 bucket name is required" ]
        /\ calls = << Call("get_secret:s3-bucket-name", NoKey) >>
        /\ s3calls = <<>>
        /\ listed = NotListed
        /\ conn = 0
        /\ sql = <<>>

\* the secret was the empty string
C5_Witness == s3_bucket_name = "" /\ pc = "raised"

\* C6: when the service gives no result the extraction raises ValueError
\* "Empty results" and returns nothing, the run ends there with the
\* extraction as its last call (no load), and no row of the table ever holds
\* anything but a full ExtractionResult.
C6_EmptyResultsFail ==
    /\ (xin.parse = ParseNone \/ xin.parse = ParseList(<<>>)) =>
         /\ xr.raised = [ type |-> "ValueError", msg |-> "Empty results" ]
         /\ xr.value = NoValue
         /\ extracted = NoValue
         /\ pc = "raised"
         /\ err = xr.raised
         /\ calls[Len(calls)] = Call("extract_document_content", files[idx])
    /\ \A i \in 1..Len(docs) :
         /\ HasAttr(docs[i].EXTRACTED_CONTENT, "data")
         /\ HasAttr(docs[i].EXTRACTED_CONTENT.data, "extracted_schema")

\* the service returned the empty list for the second key of a run
C6_Witness ==
    /\ xin.parse = ParseList(<<>>)
    /\ pc = "raised"
    /\ idx = 2
    /\ Len(docs) = 1

\* the chunk list of the first result the last extraction was given
InChunks ==
    LET r == xin.parse.results[1]
    IN  IF HasAttr(r, "chunks") THEN r.chunks ELSE <<>>

NoTypeTag(chunk) ==
    ~(HasAttr(chunk, "chunk_type") /\ HasAttr(chunk.chunk_type, "value"))

NoGrounding(chunk) ==
    ~HasAttr(chunk, "grounding") \/ chunk.grounding = <<>>

\* C7: the produced chunk list is as long as the chunk list of the first
\* result and in its order; a chunk without a type tag gets chunk_type
\* "text"; a chunk whose grounding is absent or empty gets no "grounding"
\* key.
C7_ChunkDefaults ==
    (xr.parse_called /\ xr.raised = NoErr) =>
        LET out == xr.value.data.chunks
        IN  /\ Len(out) = Len(InChunks)
            /\ \A i \in 1..Len(InChunks) :
                 LET c == InChunks[i]
                 IN  /\ NoTypeTag(c) => out[i].chunk_type = "text"
                     /\ ~NoTypeTag(c) => out[i].chunk_type = c.chunk_type.value
                     /\ NoGrounding(c) => ~HasAttr(out[i], "grounding")
                     /\ ~NoGrounding(c) =>
                          /\ HasAttr(out[i], "grounding")
                          /\ Len(out[i].grounding) = Len(c.grounding)
                     /\ HasAttr(c, "text") => out[i].text = c.text

\* a result of two chunks: the first with neither type nor grounding
\* attribute, the second with a type object without value and an empty
\* grounding list
C7_Witness ==
    /\ xr.parse_called
    /\ xr.raised = NoErr
    /\ Len(InChunks) = 2
    /\ ~HasAttr(InChunks[1], "chunk_type")
    /\ ~HasAttr(InChunks[1], "grounding")
    /\ HasAttr(InChunks[2], "chunk_type")
    /\ NoTypeTag(InChunks[2])
    /\ HasAttr(InChunks[2], "grounding")
    /\ InChunks[2].grounding = <<>>

\* C8: whatever the statement does, _exec_sql has called execute once, has
\* raised nothing and has returned None, and its caller goes on with no
\* exception pending.
C8_ExecSqlNeverRaises ==
    lastExec # NoExec =>
        /\ lastExec.executes = 1
        /\ lastExec.fetches = IF lastExec.outcome = "exec_fail" THEN 0 ELSE 1
        /\ lastExec.raised = NoErr
        /\ lastExec.ret = None
        /\ pending = NoErr
        /\ pc # "raised"

\* fetchall failed inside _exec_sql
C8_Witness == lastExec.outcome = "fetch_fail" /\ lastExec.warned

\* position of the qualified CREATE TABLE among the provisioner's statements
TablePos == Len(SetupStatements) + 2

\* C9: whenever the qualified CREATE TABLE of the provisioner failed, the
\* CREATE TABLE with the unqualified name DOCS is the next statement
\* executed.
C9_TableFallback ==
    (pc = "setup_close" /\ TablePos \in failed) =>
        /\ Len(sql) = TablePos + 1
        /\ sql[TablePos + 1] = Stmt("CREATE TABLE IF NOT EXISTS", <<"DOCS">>)

\* the provisioner's statements in their order
ProvisionOrder ==
    << Stmt("CREATE WAREHOUSE IF NOT EXISTS", <<"PREFECT_WH">>),
       Stmt("CREATE DATABASE IF NOT EXISTS", <<"ai">>),
       Stmt("USE DATABASE", <<"ai">>),
       Stmt("CREATE SCHEMA IF NOT EXISTS", <<"AGENTIC_DOC_EXTRACTION">>),
       Stmt("USE SCHEMA", <<"AGENTIC_DOC_EXTRACTION">>),
       Stmt("SELECT CURRENT", <<>>),
       Stmt("CREATE TABLE IF NOT EXISTS",
            <<"ai", "AGENTIC_DOC_EXTRACTION", "DOCS">>) >>

\* C10: the provisioner issues its seven statements in the fixed order
\* whichever of them fail: at every point the statements issued are a prefix
\* of the order, every failed statement is followed by the next one, and the
\* provisioner ends with all seven issued and no exception, the run going on
\* to the listing.
C10_ProvisionOrder ==
    /\ pc \in { "setup_sql", "setup_ctx", "setup_table" } =>
         /\ IsPrefix(sql, ProvisionOrder)
         /\ pending = NoErr
         /\ failed \subseteq 1..Len(sql)
    /\ pc = "setup_ctx" => Len(sql) = 5
    /\ pc = "setup_table" => Len(sql) = 6
    /\ pc = "setup_close" =>
         /\ IsPrefix(ProvisionOrder, sql)
         /\ pending = NoErr
    /\ pc = "list" =>
         /\ IsPrefix(ProvisionOrder, sql)
         /\ err = NoErr
         /\ conn = 0

\* every one of the seven statements failed and the provisioner is at its end
C10_Witness ==
    /\ pc = "setup_close"
    /\ failed = 1..7
    /\ pending = NoErr

\* the calls of a run up to and including the n-th step of its k-th key
CallsUpTo(k, n) ==
    FlowHeader \o PerKey(SubSeq(files, 1, k - 1))
               \o SubSeq(PerKey(<< files[k] >>), 1, n)

\* C11 (states): a run that ended with an exception while processing its
\* k-th key has made the calls of the keys before it, each once, then the
\* calls of the k-th key up to the failing one, each once, and no call for a
\* later key; the exception it ended with is the failing step's.
C11_Aborted ==
    (pc = "raised" /\ idx > 0) =>
        LET n == Len(calls) - Len(FlowHeader) - 3 * (idx - 1)
        IN  /\ n \in 1..3
            /\ calls = CallsUpTo(idx, n)
            /\ n = 1 => err = External("read_path")
            /\ n = 2 => (err = xr.raised /\ err # NoErr)
            /\ n = 3 =>
                 \/ err = External("connect") /\ mergeOut = <<>>
                 \/ /\ Len(mergeOut) = 2
                    /\ Failed(mergeOut[2])
                    /\ err = SecondMergeError(mergeOut[2])

\* C11: an exception raised while the k-th key is processed is not caught
\* by the driver: the run ends with it, having made no call for a later key
\* and having repeated no call; nothing follows in that run.
C11_KeyFailureAborts ==
    /\ []C11_Aborted
    /\ [][(pc = "load_close" /\ pending # NoErr) =>
            (pc' = "raised" /\ err' = pending /\ calls' = calls)]_vars
    /\ [][pc = "raised" =>
            (pc' = "init" /\ runs' = runs + 1 /\ calls' = <<>>)]_vars

\* the loader failed on the first of two keys
C11_Witness ==
    /\ pc = "raised"
    /\ idx = 1
    /\ Len(files) = 2
    /\ Len(mergeOut) = 2
    /\ calls = CallsUpTo(1, 3)

\* a MERGE attempt is about to be made for a path the table already holds
ReloadAttempt ==
    /\ pc \in { "load_merge", "load_fallback" }
    /\ files[idx] \in Paths(docs)

\* C12: no step of any run, aborted or not, changes or removes a row: the
\* table only grows at its end; a MERGE attempt for a path already present
\* leaves the table as it is, and when the statement succeeds the load ends
\* without error.
C12_NeverUpdatedOrDeleted ==
    /\ [][IsPrefix(docs, docs')]_vars
    /\ [][ReloadAttempt => docs' = docs]_vars
    /\ [][(ReloadAttempt /\ mergeOut' = Append(mergeOut, "ok")) =>
            (pc' = "load_close" /\ pending' = NoErr)]_vars

\* a second run loaded again the path the first run inserted and was then
\* aborted at its second key; the row of the first run is still there
C12_Witness ==
    /\ runs = 2
    /\ pc = "raised"
    /\ idx = 2
    /\ Len(docs) = 1
    /\ docs[1].FILE_PATH = files[1]
    /\ docs[1].PROCESS_DATE = 1

\* C13: create_s3_bucket_if_not_exists always checks first; it calls
\* create_bucket exactly when the check failed with code 404; when the check
\* succeeded the task returns with no create call; when the check failed
\* with another code the task raises that error with no create call.
C13_CreateOnlyOn404 ==
    s3calls # <<>> =>
        LET head == s3calls[1]
        IN  /\ head.op = "head_bucket"
            /\ Len(s3calls) <= 2
            /\ Len(s3calls) = 2 <=> head.out = "404"
            /\ Len(s3calls) = 2 => s3calls[2].op = "create_bucket"
            /\ head.out = "ok" => (pc = "setup" /\ err = NoErr)
            /\ head.out \notin { "ok", "404" } =>
                 /\ pc = "raised"
                 /\ err = [ type |-> "ClientError", code |-> head.out ]
            /\ (head.out = "404" /\ s3calls[2].out = "ok") =>
                 (pc = "setup" /\ err = NoErr)

\* the check failed with code 403 and the run ended with that error
C13_Witness ==
    /\ pc = "raised"
    /\ s3calls = << [ op |-> "head_bucket", out |-> "403" ] >>

\* the four setup steps in the order main calls them
SetupSteps ==
    << "create_aws_credentials", "create_snowflake_connector",
       "create_secret_block:landing-ai-api-key",
       "create_secret_block:s3-bucket-name" >>

\* C14: the script exits with 0 or 1, and with 0 exactly when it was given
\* 7 positional arguments and each of the four steps returned True; given 7
\* arguments it has called the four steps, in order, whatever they returned;
\* given another number it has called none and saved nothing.
C14_ExitStatus ==
    /\ spc # "exited" => status = -1
    /\ spc = "exited" =>
         /\ status \in { 0, 1 }
         /\ status = 0 <=>
              /\ argc = 7
              /\ Len(attempted) = 4
              /\ \A i \in 1..4 : attempted[i].ret
         /\ argc = 7 =>
              [ i \in 1..Len(attempted) |-> attempted[i].step ] = SetupSteps
         /\ argc # 7 => (attempted = <<>> /\ saved = <<>>)

\* given 7 arguments the first step failed, the last one succeeded, and the
\* script exited with 1
C14_Witness ==
    /\ spc = "exited"
    /\ argc = 7
    /\ status = 1
    /\ ~attempted[1].ret
    /\ attempted[4].ret

\* C15: with the API-key secret absent or empty the extraction has raised
\* the ValueError "Landing AI API key is required" having written no
\* temporary file and not called the service, and the run has ended with
\* that error.
C15_MissingApiKey ==
    xin.api_key \in { None, "" } =>
        /\ xr.raised = [ type |-> "ValueError",
                         msg |-> "Landing AI API key is required" ]
        /\ ~xr.tmp_written
        /\ ~xr.parse_called
        /\ xin.parse = NotCalled
        /\ xr.value = NoValue
        /\ pc = "raised"
        /\ err = xr.raised

\* the secret was absent when the second key of a run was extracted
C15_Witness ==
    /\ xin.api_key = None
    /\ pc = "raised"
    /\ idx = 2

\* the grounding list of the i-th chunk the last extraction was given
InGrounding(i) ==
    IF HasAttr(InChunks[i], "grounding") THEN InChunks[i].grounding ELSE <<>>

\* the grounding list of the i-th produced chunk
OutGrounding(i) ==
    LET c == xr.value.data.chunks[i]
    IN  IF HasAttr(c, "grounding") THEN c.grounding ELSE <<>>

Edges == { "l", "t", "r", "b" }

\* the entries of a grounding list that have a box
WithBox(gs) == { j \in 1..Len(gs) : HasAttr(gs[j], "box") }

\* C16 as claimed: a source grounding entry without a box is omitted, so
\* that every produced entry carries a box with the four edges and a chunk
\* has as many produced entries as source entries with a box.
C16_BoxlessOmitted ==
    (xr.parse_called /\ xr.raised = NoErr) =>
        \A i \in 1..Len(InChunks) :
            /\ Len(OutGrounding(i)) = Cardinality(WithBox(InGrounding(i)))
            /\ \A j \in 1..Len(OutGrounding(i)) :
                 /\ HasAttr(OutGrounding(i)[j], "box")
                 /\ DOMAIN OutGrounding(i)[j].box = Edges

\* C16 (amended): every source grounding entry is kept, in its position; an
\* entry without a box is produced with its page only and no "box" key; an
\* entry with a box carries a box with the four edges l, t, r, b, each the
\* source's or 0 when the source box lacks it.
C16_BoxlessKeptWithoutBox ==
    (xr.parse_called /\ xr.raised = NoErr) =>
        \A i \in 1..Len(InChunks) :
            /\ Len(OutGrounding(i)) = Len(InGrounding(i))
            /\ \A j \in 1..Len(InGrounding(i)) :
                 LET g == InGrounding(i)[j]
                     d == OutGrounding(i)[j]
                 IN  /\ d.page = IF HasAttr(g, "page") THEN g.page ELSE 0
                     /\ HasAttr(d, "box") <=> HasAttr(g, "box")
                     /\ HasAttr(g, "box") =>
                          /\ DOMAIN d.box = Edges
                          /\ \A e \in Edges :
                               d.box[e] = IF HasAttr(g.box, e) THEN g.box[e]
                                          ELSE 0

\* a chunk with a full grounding entry followed by one that has a page and
\* no box: both are produced, the second without a box
C16_Witness ==
    /\ xr.parse_called
    /\ xr.raised = NoErr
    /\ Len(InChunks) >= 1
    /\ InGrounding(1) = << GroundFull, GroundPage >>
    /\ Len(OutGrounding(1)) = 2
    /\ ~HasAttr(OutGrounding(1)[2], "box")

\* the positions of the driver inside a with-block of the provisioner or of
\* a load
InWithBlock ==
    pc \in { "setup_sql", "setup_ctx", "setup_table", "setup_close",
             "load_sql", "load_merge", "load_fallback", "load_close" }

\* C17: at most one warehouse connection is open at any point; one is open
\* exactly while the driver is inside the with-block of the provisioner or
\* of a load, so that none is open between operations or when the run has
\* ended, normally or with an exception (the second MERGE's included).
C17_AcquireUseRelease ==
    /\ conn \in { 0, 1 }
    /\ conn = 1 <=> InWithBlock
    /\ pc \in { "done", "raised" } => conn = 0

\* the unqualified MERGE raised, the run ended with its exception, and the
\* load's connection is closed
C17_Witness ==
    /\ pc = "raised"
    /\ conn = 0
    /\ Len(mergeOut) = 2
    /\ err = SecondMergeError("exec_fail")

PerFileOps == { "get_s3_file", "extract_document_content", "load_to_snowflake" }

\* C18: the calls of a run begin with the secret lookup, the bucket task,
\* the provisioner and the listing, in this order and each once: the driver
\* is at the bucket task after the first, at the provisioner after the
\* second, at the listing after the third; once the bucket is listed all
\* four have been made, every later call is a per-file call, and with an
\* empty listing they are the whole run.
C18_ProvisionThenList ==
    /\ IsPrefix(calls, FlowHeader) \/ IsPrefix(FlowHeader, calls)
    /\ \A i \in 1..Len(calls) :
         i > Len(FlowHeader) <=> calls[i].op \in PerFileOps
    /\ pc = "bucket" => calls = SubSeq(FlowHeader, 1, 1)
    /\ pc = "setup" => calls = SubSeq(FlowHeader, 1, 2)
    /\ (InWithBlock /\ idx = 0) => calls = SubSeq(FlowHeader, 1, 3)
    /\ pc = "list" => calls = SubSeq(FlowHeader, 1, 3)
    /\ (listed # NotListed \/ idx > 0 \/ pc = "done") =>
         IsPrefix(FlowHeader, calls)
    /\ EmptyListing => (calls = FlowHeader /\ pc = "done")

\* a second run is about to download its first key, the four calls made
C18_Witness ==
    /\ runs = 2
    /\ pc = "download"
    /\ idx = 1
    /\ calls = FlowHeader

\* the service was called and returned (a list or None)
ParseReturned == xin.parse # NotCalled /\ xin.parse.kind # "raise"

\* C19: the temporary file is removed exactly when the service call
\* returned: also when it returned no result and the extraction then fails
\* with "Empty results"; when the service call raised, the file was written
\* and is left on disk; when the service was not called (no API key, or
\* the file could not be created), no file was written.
C19_TempFileRemoved ==
    /\ xr.tmp_removed <=> ParseReturned
    /\ xr.tmp_removed => xr.tmp_written
    /\ (ParseReturned /\ ~HasResults(xin.parse)) =>
         /\ xr.tmp_removed
         /\ xr.raised = [ type |-> "ValueError", msg |-> "Empty results" ]
    /\ xin.parse = ParseRaise =>
         /\ xr.tmp_written
         /\ ~xr.tmp_removed
         /\ xr.raised = [ type |-> "ExternalError", call |-> "parse" ]
    /\ xin.parse = NotCalled => ~xr.tmp_written

\* the service call raised: the file written for it is still on disk
C19_Witness ==
    /\ xin.parse = ParseRaise
    /\ xr.tmp_written
    /\ ~xr.tmp_removed

\* C20: when fetchall fails after the qualified MERGE was executed, the
\* unqualified MERGE is attempted with the same parameters; when it is
\* executed too, the MERGE has run twice in the one load call, and the table
\* holds one row for the path, as it does whatever the second attempt does.
C20_FallbackAfterFetchFailure ==
    (mergeOut # <<>> /\ mergeOut[1] = "fetch_fail") =>
        /\ pc \in { "load_fallback", "load_close", "raised" }
        /\ pc # "load_fallback" =>
             /\ Len(mergeOut) = 2
             /\ Len(sql) = 4
             /\ sql[4] = [ sql[3] EXCEPT !.name = <<"DOCS">> ]
        /\ sql[3].verb = "MERGE INTO"
        /\ sql[3].params[2] = files[idx]
        /\ Cardinality(RowsFor(docs, files[idx])) = 1
        /\ files[idx] \in merged

\* fetchall failed after the qualified MERGE, the unqualified MERGE
\* succeeded: two executions in one call for a path with a '/', one row
C20_Witness ==
    /\ pc = "load_close"
    /\ mergeOut = << "fetch_fail", "ok" >>
    /\ pending = NoErr
    /\ files[idx] = << "d", "/", "a" >>
    /\ Cardinality(RowsFor(docs, files[idx])) = 1

\* C21: in a second run over the unchanged bucket in which, as in the
\* first, every external call succeeds, the run ends without error having
\* downloaded, extracted and loaded every listed key, and the table is what
\* it was at the end of the first run.
C21_RerunLeavesTable ==
    (runs >= 2 /\ pc \in { "done", "raised" }) =>
        /\ pc = "done"
        /\ err = NoErr
        /\ calls = FlowHeader \o PerKey(ListedKeys)
        /\ docs = prev.docs

====
